---- MODULE Spec2Model ----
(***************************************************************************)
(* Multi-tenant complaint management system (cms-project/core).            *)
(*                                                                         *)
(* The persisted store (Complaint and AuditLog tables) is the state; every *)
(* view of core/views.py is an operator from (store, request) to           *)
(* (store, outcome), and one action per view applies it.  A request that   *)
(* is denied or rejected leaves the store as it is.                        *)
(***************************************************************************)
EXTENDS Integers, Sequences, FiniteSets, TLC

VARIABLES
    complaints,   \* Complaint table: sequence of rows, pk = index
    audit,        \* AuditLog table: sequence of rows in creation order
    now,          \* the clock read by timezone.now() / auto_now
    applied,      \* per complaint: number of messages.success(...) issued for it
    inflight      \* requests that have loaded their complaint and not saved yet

vars == <<complaints, audit, now, applied, inflight>>

(***************************************************************************)
(* Bounds of the model                                                     *)
(***************************************************************************)
\* rows of the Complaint table, and rows of both tables together
MaxComplaints == 2
MaxRows == 5

(***************************************************************************)
(* models.py: choices                                                      *)
(***************************************************************************)
ROLE_CONSUMER == "consumer"
ROLE_HELPDESK == "helpdesk"
ROLE_SUPPORT == "support"
ROLE_MANAGER == "manager"
ROLE_ADMIN == "admin"

STATUS_OPEN == "open"
STATUS_IN_PROGRESS == "in_progress"
STATUS_RESOLVED == "resolved"
STATUS_CLOSED == "closed"

STATUS_CHOICES == {STATUS_OPEN, STATUS_IN_PROGRESS, STATUS_RESOLVED, STATUS_CLOSED}

ACTION_CREATED == "created"
ACTION_STATUS_CHANGE == "status_change"
ACTION_ASSIGNED == "assigned"
ACTION_RESOLUTION_ADDED == "resolution_added"
ACTION_CLOSED == "closed"

\* null foreign key / empty CharField / null DateTimeField
NoUser == "<None>"
NoText == ""
NullTime == 0

(***************************************************************************)
(* Tenants and users: the provisioned identities (seed_data.py), plus one  *)
(* user that has no UserProfile.  Every user is logged in: the views are   *)
(* behind login_required.                                                  *)
(***************************************************************************)
Tenants == {"acme", "techstart"}

\* Tenant.slug, as its characters
slug(t) ==
    IF t = "acme" THEN <<"a", "c", "m", "e">>
    ELSE <<"t", "e", "c", "h", "s", "t", "a", "r", "t">>

ProfiledUsers ==
    {"admin", "manager1", "helpdesk1", "support1", "consumer1", "consumer2",
     "ts_admin", "ts_consumer"}

Users == ProfiledUsers \cup {"noprofile"}

\* UserProfile rows: user -> (tenant, role)
profile(u) ==
    CASE u = "admin"       -> [tenant |-> "acme", role |-> ROLE_ADMIN]
      [] u = "manager1"    -> [tenant |-> "acme", role |-> ROLE_MANAGER]
      [] u = "helpdesk1"   -> [tenant |-> "acme", role |-> ROLE_HELPDESK]
      [] u = "support1"    -> [tenant |-> "acme", role |-> ROLE_SUPPORT]
      [] u = "consumer1"   -> [tenant |-> "acme", role |-> ROLE_CONSUMER]
      [] u = "consumer2"   -> [tenant |-> "acme", role |-> ROLE_CONSUMER]
      [] u = "ts_admin"    -> [tenant |-> "techstart", role |-> ROLE_ADMIN]
      [] u = "ts_consumer" -> [tenant |-> "techstart", role |-> ROLE_CONSUMER]

\* hasattr(request.user, 'profile')
has_profile(u) == u \in ProfiledUsers

is_consumer(u) == profile(u).role = ROLE_CONSUMER
is_helpdesk(u) == profile(u).role = ROLE_HELPDESK
is_support(u) == profile(u).role = ROLE_SUPPORT
is_manager(u) == profile(u).role = ROLE_MANAGER
is_admin(u) == profile(u).role = ROLE_ADMIN
is_staff_member(u) ==
    profile(u).role \in {ROLE_HELPDESK, ROLE_SUPPORT, ROLE_MANAGER, ROLE_ADMIN}

(***************************************************************************)
(* Request inputs                                                          *)
(***************************************************************************)
Methods == {"GET", "POST"}

\* posted 'status': the four choices, or a value that is no choice
StatusInputs == STATUS_CHOICES \cup {"bogus"}

\* posted 'assigned_to': nothing, the two assignable users of acme, a user
\* of a role that is not assignable, a user of the other tenant
AssigneeInputs == {NoUser, "support1", "manager1", "helpdesk1", "ts_admin"}

\* posted 'submitted_by': nothing, consumers of either tenant, a non-consumer
SubmittedByInputs == {NoUser, "consumer1", "consumer2", "ts_consumer", "support1"}

\* query parameters of the list: 'status' absent or a status, 'page' the
\* first page or one past it; Paginator(complaints, 10)
StatusFilterInputs == {NoText, STATUS_OPEN, STATUS_RESOLVED}
PageInputs == {1, 2}
PageSize == 10

\* posted 'title' and 'resolution_notes': empty or not
TitleInputs == {NoText, "t"}
NotesInputs == {NoText, "n"}

upper(ch) ==
    CASE ch = "a" -> "A" [] ch = "b" -> "B" [] ch = "c" -> "C" [] ch = "d" -> "D"
      [] ch = "e" -> "E" [] ch = "f" -> "F" [] ch = "h" -> "H" [] ch = "m" -> "M"
      [] ch = "r" -> "R" [] ch = "s" -> "S" [] ch = "t" -> "T" [] OTHER -> ch

upper_str(s) == [i \in 1..Len(s) |-> upper(s[i])]

Min(a, b) == IF a < b THEN a ELSE b

\* str(uuid.uuid4())[:8]: the values uuid4 may return are interchangeable, so
\* a draw is either a value drawn before or the first one not drawn yet
Hex == <<"a", "b", "c", "d", "e", "f">>
uuid_used(i) ==
    \E k \in DOMAIN complaints :
        complaints[k].reference_number[Len(complaints[k].reference_number)] = upper(Hex[i])
UuidInputs == {i \in DOMAIN Hex : \A j \in 1..(i - 1) : uuid_used(j)}

(***************************************************************************)
(* Outcomes of a request                                                   *)
(***************************************************************************)
Ok == "Ok"                               \* mutation saved, messages.success
Rendered == "Rendered"                   \* a page showing the complaint / a form
Redirected == "Redirected"               \* redirect to the detail page, nothing done
ValidationError == "ValidationError"     \* the form is shown again with its errors
NotFound == "NotFound"                   \* Http404 from get_object_or_404
Forbidden == "Forbidden"                 \* HttpResponseForbidden
Unconfigured == "Unconfigured"           \* redirect('dashboard'): no profile
InvalidTransition == "InvalidTransition" \* 'Invalid status transition.'
WrongState == "WrongState"               \* 'Only resolved complaints can be closed.'
ServerError == "ServerError"             \* IntegrityError out of Complaint.save

Res(cs, au, nw, ap, out) ==
    [complaints |-> cs, audit |-> au, now |-> nw, applied |-> ap, outcome |-> out]

\* a response that leaves the store as it is
Respond(out) == Res(complaints, audit, now, applied, out)

(***************************************************************************)
(* models.py: Complaint                                                    *)
(***************************************************************************)
\* Complaint._generate_reference_number: slug.upper()[:3] + '-' + uuid[:8].upper()
generate_reference_number(tenant, uuid) ==
    LET up == upper_str(slug(tenant))
        prefix == SubSeq(up, 1, Min(3, Len(up)))
    IN  prefix \o <<"-">> \o upper_str(uuid)

\* Complaint.can_update_status
valid_transitions(status) ==
    CASE status = STATUS_OPEN -> {STATUS_IN_PROGRESS}
      [] status = STATUS_IN_PROGRESS -> {STATUS_RESOLVED, STATUS_OPEN}
      [] status = STATUS_RESOLVED -> {STATUS_CLOSED, STATUS_IN_PROGRESS}
      [] status = STATUS_CLOSED -> {}
      [] OTHER -> {}

can_update_status(c, new_status) == new_status \in valid_transitions(c.status)

\* Complaint.save without the two timestamp blocks
Complaint_save_without_stamps(c, uuid, t) ==
    LET c1 == IF c.reference_number = <<>>
              THEN [c EXCEPT !.reference_number = generate_reference_number(c.tenant, <<Hex[uuid]>>)]
              ELSE c
    IN  [c1 EXCEPT !.created_at = IF @ = NullTime THEN t ELSE @,
                   !.updated_at = t]

\* Complaint.save without the 'if not self.reference_number'
Complaint_save_regenerates(c, uuid, t) ==
    LET c1 == [c EXCEPT !.reference_number = generate_reference_number(c.tenant, <<Hex[uuid]>>)]
        c2 == IF c1.status = STATUS_RESOLVED /\ c1.resolved_at = NullTime
              THEN [c1 EXCEPT !.resolved_at = t] ELSE c1
        c3 == IF c2.status = STATUS_CLOSED /\ c2.closed_at = NullTime
              THEN [c2 EXCEPT !.closed_at = t] ELSE c2
    IN  [c3 EXCEPT !.created_at = IF @ = NullTime THEN t ELSE @,
                   !.updated_at = t]

\* Complaint.save without the 'and not self.resolved_at' / 'not self.closed_at'
Complaint_save_restamps(c, uuid, t) ==
    LET c1 == IF c.reference_number = <<>>
              THEN [c EXCEPT !.reference_number = generate_reference_number(c.tenant, <<Hex[uuid]>>)]
              ELSE c
        c2 == IF c1.status = STATUS_RESOLVED
              THEN [c1 EXCEPT !.resolved_at = t] ELSE c1
        c3 == IF c2.status = STATUS_CLOSED
              THEN [c2 EXCEPT !.closed_at = t] ELSE c2
    IN  [c3 EXCEPT !.created_at = IF @ = NullTime THEN t ELSE @,
                   !.updated_at = t]

\* Complaint.save up to super().save(): the row that is written at time t
Complaint_save(c, uuid, t) ==
    LET c1 == IF c.reference_number = <<>>
              THEN [c EXCEPT !.reference_number = generate_reference_number(c.tenant, <<Hex[uuid]>>)]
              ELSE c
        c2 == IF c1.status = STATUS_RESOLVED /\ c1.resolved_at = NullTime
              THEN [c1 EXCEPT !.resolved_at = t] ELSE c1
        c3 == IF c2.status = STATUS_CLOSED /\ c2.closed_at = NullTime
              THEN [c2 EXCEPT !.closed_at = t] ELSE c2
    IN  [c3 EXCEPT !.created_at = IF @ = NullTime THEN t ELSE @,
                   !.updated_at = t]

\* Complaint(...) as ModelForm.save(commit=False) builds it: field defaults
new_complaint(title, submitted_by) ==
    [tenant |-> "", reference_number |-> <<>>, title |-> title,
     status |-> STATUS_OPEN, submitted_by |-> submitted_by, logged_by |-> NoUser,
     assigned_to |-> NoUser, resolution_notes |-> NoText,
     created_at |-> NullTime, updated_at |-> NullTime,
     resolved_at |-> NullTime, closed_at |-> NullTime]

\* reference_number without unique=True: no INSERT is refused
unique_violation_unchecked(c) == FALSE

\* reference_number is unique=True: an INSERT of a taken number is refused
unique_violation(c) ==
    \E k \in DOMAIN complaints : complaints[k].reference_number = c.reference_number

(***************************************************************************)
(* views.py helpers                                                        *)
(***************************************************************************)
\* get_object_or_404(Complaint, pk=pk): the tenant filter left out
get_object_or_404_any_tenant(pk, tenant) ==
    pk \in DOMAIN complaints

\* get_object_or_404(Complaint, pk=pk, tenant=tenant) finds a row
get_object_or_404(pk, tenant) ==
    pk \in DOMAIN complaints /\ complaints[pk].tenant = tenant

\* create_audit_log with the tenant of the first Tenant row, not of the complaint
create_audit_log_first_tenant(pk, c, user, action, details, old_value, new_value, t) ==
    [tenant |-> "acme", complaint |-> pk, user |-> user, action |-> action,
     details |-> details, old_value |-> old_value, new_value |-> new_value,
     created_at |-> t]

\* the AuditLog row create_audit_log writes at time t
create_audit_log(pk, c, user, action, details, old_value, new_value, t) ==
    [tenant |-> c.tenant, complaint |-> pk, user |-> user, action |-> action,
     details |-> details, old_value |-> old_value, new_value |-> new_value,
     created_at |-> t]

\* role_required without the 'role not in allowed_roles' check
role_required_any_role(allowed_roles, u) ==
    has_profile(u)

\* decorators.py role_required: the wrapped view is entered
role_required(allowed_roles, u) ==
    has_profile(u) /\ profile(u).role \in allowed_roles

\* the store after an UPDATE of row pk and an UPDATE of the newest audit row
Updated_rewriting_audit(pk, c, entry) ==
    Res([complaints EXCEPT ![pk] = c], [audit EXCEPT ![Len(audit)] = entry], now + 2,
        [applied EXCEPT ![pk] = @ + 1], Ok)

\* the store after an UPDATE of row pk followed by one audit INSERT
Updated(pk, c, entry) ==
    Res([complaints EXCEPT ![pk] = c], Append(audit, entry), now + 2,
        [applied EXCEPT ![pk] = @ + 1], Ok)

(***************************************************************************)
(* forms.py                                                                *)
(***************************************************************************)
\* ComplaintStatusForm(POST, instance=complaint).is_valid(): a ModelForm's
\* validation writes the cleaned fields onto the instance it was given
\* (construct_instance in _post_clean), so a valid 'status' is already on
\* the in-memory complaint when is_valid() returns.
ComplaintStatusForm(instance, status) ==
    IF status \in STATUS_CHOICES
    THEN [is_valid |-> TRUE, instance |-> [instance EXCEPT !.status = status],
          status |-> status]
    ELSE [is_valid |-> FALSE, instance |-> instance, status |-> status]

(***************************************************************************)
(* views.py: complaint_list                                                *)
(***************************************************************************)
\* get_tenant_complaints(user): the pks of the queryset
get_tenant_complaints(u) ==
    IF has_profile(u)
    THEN {pk \in DOMAIN complaints : complaints[pk].tenant = profile(u).tenant}
    ELSE {}

\* Meta.ordering = ['-created_at']: the rows of a queryset, newest first
ordered(qs) ==
    [i \in 1..Cardinality(qs) |->
        CHOOSE pk \in qs :
            Cardinality({q \in qs : complaints[q].created_at > complaints[pk].created_at})
                = i - 1]

\* Paginator(object_list, per_page).get_page(number): a number below 1 or
\* past the last page gives the last page (there is always a first page)
get_page(object_list, per_page, number) ==
    LET count == Len(object_list)
        num_pages == IF count = 0 THEN 1 ELSE (count + per_page - 1) \div per_page
        n == IF number < 1 \/ number > num_pages THEN num_pages ELSE number
    IN  SubSeq(object_list, (n - 1) * per_page + 1, Min(n * per_page, count))

\* complaint_list without 'complaints.filter(submitted_by=request.user)'
complaint_list_all_of_tenant(u, status_filter, page_number) ==
    IF ~has_profile(u) THEN [outcome |-> Unconfigured, page_obj |-> <<>>]
    ELSE LET qs0 == get_tenant_complaints(u)
             qs2 == IF status_filter # NoText
                    THEN {pk \in qs0 : complaints[pk].status = status_filter} ELSE qs0
         IN  [outcome |-> Rendered,
              page_obj |-> get_page(ordered(qs2), PageSize, page_number)]

\* complaint_list with the 'status' and 'page' query parameters; the page
\* that is rendered is part of the response
complaint_list(u, status_filter, page_number) ==
    IF ~has_profile(u) THEN [outcome |-> Unconfigured, page_obj |-> <<>>]
    ELSE LET qs0 == get_tenant_complaints(u)
             qs1 == IF is_consumer(u)
                    THEN {pk \in qs0 : complaints[pk].submitted_by = u} ELSE qs0
             qs2 == IF status_filter # NoText
                    THEN {pk \in qs1 : complaints[pk].status = status_filter} ELSE qs1
         IN  [outcome |-> Rendered,
              page_obj |-> get_page(ordered(qs2), PageSize, page_number)]

(***************************************************************************)
(* views.py: complaint_detail                                              *)
(***************************************************************************)
complaint_detail(u, pk) ==
    IF ~has_profile(u) THEN Respond(Unconfigured)
    ELSE IF ~get_object_or_404(pk, profile(u).tenant) THEN Respond(NotFound)
    ELSE IF is_consumer(u) /\ complaints[pk].submitted_by # u THEN Respond(Forbidden)
    ELSE Respond(Rendered)

(***************************************************************************)
(* views.py: complaint_create                                              *)
(***************************************************************************)
\* ComplaintForm(POST, user=user).is_valid(): title (standing for the
\* required text fields) must not be empty; a Consumer
\* has no submitted_by field; for staff the posted submitted_by is optional
\* and must be a Consumer of the staff member's tenant
ComplaintForm(u, title, submitted_by) ==
    LET consumers == {x \in ProfiledUsers :
                        profile(x).tenant = profile(u).tenant /\ is_consumer(x)}
    IN  IF is_consumer(u)
        THEN [is_valid |-> title # NoText, instance |-> new_complaint(title, NoUser)]
        ELSE [is_valid |-> title # NoText /\ submitted_by \in consumers \cup {NoUser},
              instance |-> new_complaint(title, submitted_by)]

\* complaint_create without the hasattr(request.user, 'profile') check:
\* request.user.profile raises for a user that has none
complaint_create_unguarded(u, method, title, submitted_by, uuid) ==
    IF ~has_profile(u) THEN Respond(ServerError)
    ELSE IF method # "POST" THEN Respond(Rendered)
    ELSE LET form == ComplaintForm(u, title, submitted_by) IN
         IF ~form.is_valid THEN Respond(ValidationError)
         ELSE LET c0 == [form.instance EXCEPT !.tenant = profile(u).tenant]
                  c1 == IF is_consumer(u) THEN [c0 EXCEPT !.submitted_by = u]
                        ELSE [c0 EXCEPT !.logged_by = u]
                  saved == Complaint_save(c1, uuid, now)
                  pk == Len(complaints) + 1
              IN  IF unique_violation(saved) THEN Respond(ServerError)
                  ELSE Res(Append(complaints, saved),
                           Append(audit,
                               create_audit_log(pk, saved, u, ACTION_CREATED,
                                   <<"Complaint created:", saved.title>>,
                                   NoText, NoText, now + 1)),
                           now + 2, Append(applied, 1), Ok)

complaint_create(u, method, title, submitted_by, uuid) ==
    IF ~has_profile(u) THEN Respond(Unconfigured)
    ELSE IF method # "POST" THEN Respond(Rendered)
    ELSE LET form == ComplaintForm(u, title, submitted_by) IN
         IF ~form.is_valid THEN Respond(ValidationError)
         ELSE LET c0 == [form.instance EXCEPT !.tenant = profile(u).tenant]
                  c1 == IF is_consumer(u) THEN [c0 EXCEPT !.submitted_by = u]
                        ELSE [c0 EXCEPT !.logged_by = u]
                  saved == Complaint_save(c1, uuid, now)
                  pk == Len(complaints) + 1
              IN  IF unique_violation(saved) THEN Respond(ServerError)
                  ELSE Res(Append(complaints, saved),
                           Append(audit,
                               create_audit_log(pk, saved, u, ACTION_CREATED,
                                   <<"Complaint created:", saved.title>>,
                                   NoText, NoText, now + 1)),
                           now + 2, Append(applied, 1), Ok)

(***************************************************************************)
(* views.py: complaint_update_status                                       *)
(***************************************************************************)
\* complaint_update_status with form.save() ahead of the transition check
complaint_update_status_saves_form(u, pk, method, status) ==
    IF ~role_required({ROLE_HELPDESK, ROLE_SUPPORT, ROLE_MANAGER, ROLE_ADMIN}, u)
    THEN Respond(Forbidden)
    ELSE IF ~get_object_or_404(pk, profile(u).tenant) THEN Respond(NotFound)
    ELSE IF method # "POST" THEN Respond(Redirected)
    ELSE LET form == ComplaintStatusForm(complaints[pk], status)
             complaint == Complaint_save(form.instance, 1, now)
             old_status == complaint.status
             new_status == form.status
         IN  IF ~form.is_valid THEN Respond(Redirected)
             ELSE IF can_update_status(complaint, new_status) \/ is_admin(u)
             THEN Updated(pk, complaint,
                          create_audit_log(pk, complaint, u, ACTION_STATUS_CHANGE,
                              <<"Status changed from", old_status, "to", new_status>>,
                              old_status, new_status, now + 1))
             ELSE Res([complaints EXCEPT ![pk] = complaint], audit, now + 1, applied,
                      InvalidTransition)

\* complaint_update_status from 'form = ComplaintStatusForm(...)' on, for a
\* POST, with the complaint that get_object_or_404 loaded
complaint_update_status_loaded(u, pk, loaded, status) ==
    LET form == ComplaintStatusForm(loaded, status)
        complaint == form.instance
        old_status == complaint.status
        new_status == form.status
    IN  IF ~form.is_valid THEN Respond(Redirected)
        ELSE IF can_update_status(complaint, new_status) \/ is_admin(u)
        THEN LET saved == Complaint_save([complaint EXCEPT !.status = new_status],
                                         1, now)
             IN  Updated(pk, saved,
                         create_audit_log(pk, saved, u, ACTION_STATUS_CHANGE,
                             <<"Status changed from", old_status, "to", new_status>>,
                             old_status, new_status, now + 1))
        ELSE Respond(InvalidTransition)

complaint_update_status(u, pk, method, status) ==
    IF ~role_required({ROLE_HELPDESK, ROLE_SUPPORT, ROLE_MANAGER, ROLE_ADMIN}, u)
    THEN Respond(Forbidden)
    ELSE IF ~get_object_or_404(pk, profile(u).tenant) THEN Respond(NotFound)
    ELSE IF method # "POST" THEN Respond(Redirected)
    ELSE complaint_update_status_loaded(u, pk, complaints[pk], status)

(***************************************************************************)
(* views.py: complaint_assign                                              *)
(***************************************************************************)
\* AssignmentForm with a queryset of all users
AssignmentForm_any_user(tenant, assigned_to) ==
    [is_valid |-> assigned_to \in ProfiledUsers, assigned_to |-> assigned_to]

\* AssignmentForm(POST, tenant=tenant).is_valid(): assigned_to is required
\* and must be a Support or Manager user of the tenant
AssignmentForm(tenant, assigned_to) ==
    LET support_staff == {x \in ProfiledUsers :
                            /\ profile(x).tenant = tenant
                            /\ profile(x).role \in {ROLE_SUPPORT, ROLE_MANAGER}}
    IN  [is_valid |-> assigned_to \in support_staff, assigned_to |-> assigned_to]

\* user.username if user else 'Unassigned'
username_or_unassigned(user) == IF user # NoUser THEN user ELSE "Unassigned"

\* complaint_assign without the auto-advance of an Open complaint
complaint_assign_keeps_status(u, pk, method, assigned_to) ==
    IF ~role_required({ROLE_HELPDESK, ROLE_MANAGER, ROLE_ADMIN}, u)
    THEN Respond(Forbidden)
    ELSE IF ~get_object_or_404(pk, profile(u).tenant) THEN Respond(NotFound)
    ELSE IF method # "POST" THEN Respond(Redirected)
    ELSE LET form == AssignmentForm(profile(u).tenant, assigned_to)
             complaint == complaints[pk]
             old_assigned == complaint.assigned_to
             new_assigned == form.assigned_to
             saved == Complaint_save([complaint EXCEPT !.assigned_to = new_assigned],
                                     1, now)
             old_name == username_or_unassigned(old_assigned)
             new_name == username_or_unassigned(new_assigned)
         IN  IF ~form.is_valid THEN Respond(Redirected)
             ELSE Updated(pk, saved,
                          create_audit_log(pk, saved, u, ACTION_ASSIGNED,
                              <<"Assigned to", new_name>>, old_name, new_name, now + 1))

\* complaint_assign from 'form = AssignmentForm(...)' on, for a POST, with
\* the complaint that get_object_or_404 loaded
complaint_assign_loaded(u, pk, loaded, assigned_to) ==
    LET form == AssignmentForm(profile(u).tenant, assigned_to)
        complaint == loaded
        old_assigned == complaint.assigned_to
        new_assigned == form.assigned_to
        c1 == [complaint EXCEPT !.assigned_to = new_assigned]
        c2 == IF c1.status = STATUS_OPEN
              THEN [c1 EXCEPT !.status = STATUS_IN_PROGRESS] ELSE c1
        saved == Complaint_save(c2, 1, now)
        old_name == username_or_unassigned(old_assigned)
        new_name == username_or_unassigned(new_assigned)
    IN  IF ~form.is_valid THEN Respond(Redirected)
        ELSE Updated(pk, saved,
                     create_audit_log(pk, saved, u, ACTION_ASSIGNED,
                         <<"Assigned to", new_name>>, old_name, new_name, now + 1))

complaint_assign(u, pk, method, assigned_to) ==
    IF ~role_required({ROLE_HELPDESK, ROLE_MANAGER, ROLE_ADMIN}, u)
    THEN Respond(Forbidden)
    ELSE IF ~get_object_or_404(pk, profile(u).tenant) THEN Respond(NotFound)
    ELSE IF method # "POST" THEN Respond(Redirected)
    ELSE complaint_assign_loaded(u, pk, complaints[pk], assigned_to)

(***************************************************************************)
(* views.py: complaint_add_resolution                                      *)
(***************************************************************************)
\* ResolutionForm(POST).is_valid(): resolution_notes is required
ResolutionForm(resolution_notes) ==
    [is_valid |-> resolution_notes # NoText, resolution_notes |-> resolution_notes]

\* the POST branch of complaint_add_resolution, also moving the complaint to
\* Resolved
complaint_add_resolution_resolves(u, pk, loaded, resolution_notes) ==
    LET form == ResolutionForm(resolution_notes)
        saved == Complaint_save(
                   [loaded EXCEPT !.resolution_notes = form.resolution_notes,
                                  !.status = STATUS_RESOLVED],
                   1, now)
    IN  IF ~form.is_valid THEN Respond(Redirected)
        ELSE Updated(pk, saved,
                     create_audit_log(pk, saved, u, ACTION_RESOLUTION_ADDED,
                         <<"Resolution notes updated">>, NoText, NoText, now + 1))

\* complaint_add_resolution from 'form = ResolutionForm(...)' on, for a
\* POST, with the complaint that get_object_or_404 loaded
complaint_add_resolution_loaded(u, pk, loaded, resolution_notes) ==
    LET form == ResolutionForm(resolution_notes)
        saved == Complaint_save(
                   [loaded EXCEPT !.resolution_notes = form.resolution_notes],
                   1, now)
    IN  IF ~form.is_valid THEN Respond(Redirected)
        ELSE Updated(pk, saved,
                     create_audit_log(pk, saved, u, ACTION_RESOLUTION_ADDED,
                         <<"Resolution notes updated">>, NoText, NoText, now + 1))

complaint_add_resolution(u, pk, method, resolution_notes) ==
    IF ~role_required({ROLE_SUPPORT, ROLE_MANAGER, ROLE_ADMIN}, u)
    THEN Respond(Forbidden)
    ELSE IF ~get_object_or_404(pk, profile(u).tenant) THEN Respond(NotFound)
    ELSE IF method # "POST" THEN Respond(Redirected)
    ELSE complaint_add_resolution_loaded(u, pk, complaints[pk], resolution_notes)

(***************************************************************************)
(* views.py: complaint_close                                               *)
(***************************************************************************)
\* complaint_close without the 'if request.method == "POST"' test
complaint_close_any_method(u, pk, method) ==
    IF ~has_profile(u) THEN Respond(Unconfigured)
    ELSE IF ~get_object_or_404(pk, profile(u).tenant) THEN Respond(NotFound)
    ELSE IF complaints[pk].submitted_by # u THEN Respond(Forbidden)
    ELSE IF complaints[pk].status # STATUS_RESOLVED THEN Respond(WrongState)
    ELSE LET saved == Complaint_save([complaints[pk] EXCEPT !.status = STATUS_CLOSED],
                                     1, now)
         IN  Updated(pk, saved,
                     create_audit_log(pk, saved, u, ACTION_CLOSED,
                         <<"Consumer confirmed resolution and closed the complaint">>,
                         NoText, NoText, now + 1))

\* complaint_close without the audit row
complaint_close_without_audit(u, pk, method) ==
    IF ~has_profile(u) THEN Respond(Unconfigured)
    ELSE IF ~get_object_or_404(pk, profile(u).tenant) THEN Respond(NotFound)
    ELSE IF complaints[pk].submitted_by # u THEN Respond(Forbidden)
    ELSE IF complaints[pk].status # STATUS_RESOLVED THEN Respond(WrongState)
    ELSE IF method # "POST" THEN Respond(Rendered)
    ELSE LET saved == Complaint_save([complaints[pk] EXCEPT !.status = STATUS_CLOSED],
                                     1, now)
         IN  Res([complaints EXCEPT ![pk] = saved], audit, now + 1,
                 [applied EXCEPT ![pk] = @ + 1], Ok)

\* complaint_close without the 'Only resolved complaints can be closed.' check
complaint_close_in_any_state(u, pk, method) ==
    IF ~has_profile(u) THEN Respond(Unconfigured)
    ELSE IF ~get_object_or_404(pk, profile(u).tenant) THEN Respond(NotFound)
    ELSE IF complaints[pk].submitted_by # u THEN Respond(Forbidden)
    ELSE IF method # "POST" THEN Respond(Rendered)
    ELSE LET saved == Complaint_save([complaints[pk] EXCEPT !.status = STATUS_CLOSED],
                                     1, now)
         IN  Updated(pk, saved,
                     create_audit_log(pk, saved, u, ACTION_CLOSED,
                         <<"Consumer confirmed resolution and closed the complaint">>,
                         NoText, NoText, now + 1))

complaint_close(u, pk, method) ==
    IF ~has_profile(u) THEN Respond(Unconfigured)
    ELSE IF ~get_object_or_404(pk, profile(u).tenant) THEN Respond(NotFound)
    ELSE IF complaints[pk].submitted_by # u THEN Respond(Forbidden)
    ELSE IF complaints[pk].status # STATUS_RESOLVED THEN Respond(WrongState)
    ELSE IF method # "POST" THEN Respond(Rendered)
    ELSE LET saved == Complaint_save([complaints[pk] EXCEPT !.status = STATUS_CLOSED],
                                     1, now)
         IN  Updated(pk, saved,
                     create_audit_log(pk, saved, u, ACTION_CLOSED,
                         <<"Consumer confirmed resolution and closed the complaint">>,
                         NoText, NoText, now + 1))

(***************************************************************************)
(* The system: one action per view, over every request                     *)
(***************************************************************************)
Init ==
    /\ complaints = <<>>
    /\ audit = <<>>
    /\ now = 1
    /\ applied = <<>>
    /\ inflight = {}

\* the tables have room for the rows one more request may write
Room == Len(complaints) + Len(audit) + 1 <= MaxRows

Apply(r) ==
    /\ Len(r.complaints) <= MaxComplaints
    /\ Len(r.complaints) + Len(r.audit) <= MaxRows
    /\ complaints' = r.complaints
    /\ audit' = r.audit
    /\ now' = r.now
    /\ applied' = r.applied
    /\ inflight' = inflight

\* the pks that address a row, and the first one that addresses none
Pks == 1..(Len(complaints) + 1)

ListComplaints ==
    /\ Room
    /\ \E u \in Users, status_filter \in StatusFilterInputs, page_number \in PageInputs :
          Apply(Respond(complaint_list(u, status_filter, page_number).outcome))

ViewDetail ==
    /\ Room
    /\ \E u \in Users, pk \in Pks : Apply(complaint_detail(u, pk))

CreateComplaint ==
    /\ Room
    /\ \E u \in Users :
          \/ Apply(complaint_create(u, "GET", NoText, NoUser, 1))
          \/ \E title \in TitleInputs, submitted_by \in SubmittedByInputs,
                uuid \in UuidInputs :
                 Apply(complaint_create(u, "POST", title, submitted_by, uuid))

UpdateStatus ==
    /\ Room
    /\ \E u \in Users, pk \in Pks :
          \/ Apply(complaint_update_status(u, pk, "GET", STATUS_OPEN))
          \/ \E status \in StatusInputs :
                 Apply(complaint_update_status(u, pk, "POST", status))

Assign ==
    /\ Room
    /\ \E u \in Users, pk \in Pks :
          \/ Apply(complaint_assign(u, pk, "GET", NoUser))
          \/ \E assigned_to \in AssigneeInputs :
                 Apply(complaint_assign(u, pk, "POST", assigned_to))

AddResolution ==
    /\ Room
    /\ \E u \in Users, pk \in Pks :
          \/ Apply(complaint_add_resolution(u, pk, "GET", NoText))
          \/ \E notes \in NotesInputs :
                 Apply(complaint_add_resolution(u, pk, "POST", notes))

Close ==
    /\ Room
    /\ \E u \in Users, pk \in Pks, method \in Methods :
          Apply(complaint_close(u, pk, method))

Next ==
    \/ ListComplaints
    \/ ViewDetail
    \/ CreateComplaint
    \/ UpdateStatus
    \/ Assign
    \/ AddResolution
    \/ Close

Spec == Init /\ [][Next]_vars

(***************************************************************************)
(* Storage failures.  The views call complaint.save() and then             *)
(* create_audit_log(...) with no transaction around the two, and Django    *)
(* commits each statement as it is executed (autocommit) unless a          *)
(* transaction is opened: when AuditLog.objects.create raises, the row     *)
(* that complaint.save() wrote stays written.                              *)
(***************************************************************************)
\* storage failures a behaviour may contain
MaxStorageFailures == 1

\* the failures so far: each left the clock one tick ahead of the audit rows
StorageFailures == now - 1 - 2 * Len(audit)

\* the store after a request whose complaint.save() succeeded, as response r
\* shows, and whose AuditLog.objects.create raised: the exception leaves the
\* view before messages.success
audit_write_fails(r) ==
    Res(r.complaints, audit, now + 1, applied, ServerError)

AuditWriteFails ==
    /\ Room
    /\ StorageFailures < MaxStorageFailures
    /\ \E u \in Users, pk \in Pks :
          \E r \in {complaint_create(u, "POST", "t", sb, uuid) :
                       sb \in SubmittedByInputs, uuid \in UuidInputs}
                 \cup {complaint_update_status(u, pk, "POST", status) :
                          status \in StatusInputs}
                 \cup {complaint_assign(u, pk, "POST", assigned_to) :
                          assigned_to \in AssigneeInputs}
                 \cup {complaint_add_resolution(u, pk, "POST", notes) :
                          notes \in NotesInputs}
                 \cup {complaint_close(u, pk, "POST")} :
              /\ r.outcome = Ok
              /\ Apply(audit_write_fails(r))

\* the row bound of the behaviours with a storage failure
MaxStorageRows == 3
StorageRoom == Len(complaints) + Len(audit) + 1 <= MaxStorageRows

NextStorage ==
    \/ StorageRoom /\ ListComplaints
    \/ StorageRoom /\ ViewDetail
    \/ StorageRoom /\ CreateComplaint
    \/ StorageRoom /\ UpdateStatus
    \/ StorageRoom /\ Assign
    \/ StorageRoom /\ AddResolution
    \/ StorageRoom /\ Close
    \/ StorageRoom /\ AuditWriteFails

SpecStorage == Init /\ [][NextStorage]_vars

(***************************************************************************)
(* Concurrent requests.  Each request is handled on its own: a view loads  *)
(* the complaint (get_object_or_404), and later validates its form, checks *)
(* and saves, with no lock and no version check in between, and            *)
(* Model.save() writes every field of the instance it holds.  Between the  *)
(* load and the save of one request, other requests may load and save.     *)
(***************************************************************************)
\* requests that may be between their load and their save at one time
MaxInflight == 2

\* the staff whose requests overlap: an Administrator, a Helpdesk agent
\* (status, assign) and a Support engineer (status, notes)
ConcurrentUsers == {"admin", "helpdesk1", "support1"}

\* what the overlapping requests post: a status (or no status), an
\* assignee (or none), notes
ConcurrentStatusInputs == {STATUS_OPEN, STATUS_RESOLVED, "bogus"}
ConcurrentAssigneeInputs == {NoUser, "support1"}
ConcurrentNotesInputs == {"n"}

\* the store after consumer1 created one complaint
InitConcurrent ==
    LET c == Complaint_save(
                 [new_complaint("t", "consumer1") EXCEPT !.tenant = "acme"], 1, 1)
    IN  /\ complaints = <<c>>
        /\ audit = <<create_audit_log(1, c, "consumer1", ACTION_CREATED,
                          <<"Complaint created:", c.title>>, NoText, NoText, 2)>>
        /\ now = 3
        /\ applied = <<1>>
        /\ inflight = {}

\* the view has let the request in and loaded the complaint
Load(view, u, pk, data) ==
    /\ Cardinality(inflight) < MaxInflight
    /\ inflight' = inflight \cup
           {[view |-> view, user |-> u, pk |-> pk, data |-> data,
             loaded |-> complaints[pk]]}
    /\ UNCHANGED <<complaints, audit, now, applied>>

\* the rest of the view has run on the loaded complaint, with response r
Finish(req, r) ==
    /\ Len(r.complaints) + Len(r.audit) <= MaxRows
    /\ complaints' = r.complaints
    /\ audit' = r.audit
    /\ now' = r.now
    /\ applied' = r.applied
    /\ inflight' = inflight \ {req}

LoadUpdateStatus ==
    /\ Room
    /\ \E u \in ConcurrentUsers, pk \in DOMAIN complaints,
          status \in ConcurrentStatusInputs :
          /\ complaint_update_status(u, pk, "POST", status).outcome
                 \notin {Forbidden, NotFound}
          /\ Load("update_status", u, pk, status)

FinishUpdateStatus ==
    \E req \in inflight :
        /\ req.view = "update_status"
        /\ Finish(req, complaint_update_status_loaded(req.user, req.pk, req.loaded,
                                                      req.data))

LoadAssign ==
    /\ Room
    /\ \E u \in ConcurrentUsers, pk \in DOMAIN complaints,
          assigned_to \in ConcurrentAssigneeInputs :
          /\ complaint_assign(u, pk, "POST", assigned_to).outcome
                 \notin {Forbidden, NotFound}
          /\ Load("assign", u, pk, assigned_to)

FinishAssign ==
    \E req \in inflight :
        /\ req.view = "assign"
        /\ Finish(req, complaint_assign_loaded(req.user, req.pk, req.loaded, req.data))

LoadAddResolution ==
    /\ Room
    /\ \E u \in ConcurrentUsers, pk \in DOMAIN complaints,
          notes \in ConcurrentNotesInputs :
          /\ complaint_add_resolution(u, pk, "POST", notes).outcome
                 \notin {Forbidden, NotFound}
          /\ Load("add_resolution", u, pk, notes)

FinishAddResolution ==
    \E req \in inflight :
        /\ req.view = "add_resolution"
        /\ Finish(req, complaint_add_resolution_loaded(req.user, req.pk, req.loaded,
                                                       req.data))

NextConcurrent ==
    \/ LoadUpdateStatus
    \/ FinishUpdateStatus
    \/ LoadAssign
    \/ FinishAssign
    \/ LoadAddResolution
    \/ FinishAddResolution

SpecConcurrent == InitConcurrent /\ [][NextConcurrent]_vars

(***************************************************************************)
(* Vocabulary of the properties                                            *)
(***************************************************************************)
\* a response that wrote nothing
Unchanged(r) == r.complaints = complaints /\ r.audit = audit

\* the outcomes that deny the request
Denied == {Forbidden, NotFound, Unconfigured}

\* the first pk that addresses no row
Absent == Len(complaints) + 1

\* complaint pk exists and belongs to another tenant than user u
CrossTenant(u, pk) ==
    /\ has_profile(u)
    /\ pk \in DOMAIN complaints
    /\ complaints[pk].tenant # profile(u).tenant

\* complaint pk exists in the tenant of user u
InTenant(u, pk) ==
    /\ has_profile(u)
    /\ pk \in DOMAIN complaints
    /\ complaints[pk].tenant = profile(u).tenant

StaffRoles == {ROLE_HELPDESK, ROLE_SUPPORT, ROLE_MANAGER, ROLE_ADMIN}

\* the audit rows of complaint pk, as the positions they have in the table
AuditOf(pk) == {i \in DOMAIN audit : audit[i].complaint = pk}

\* the rows a response appended to the audit table
Appended(r) == SubSeq(r.audit, Len(audit) + 1, Len(r.audit))

(***************************************************************************)
(* C1: change-status applies the change iff the requested status is an     *)
(* allowed destination of the persisted current status, or the actor is an *)
(* Administrator and the requested status differs from the current one.    *)
(***************************************************************************)
C1_TransitionIffAllowed ==
    \A u \in Users, pk \in DOMAIN complaints, status \in STATUS_CHOICES :
        (InTenant(u, pk) /\ profile(u).role \in StaffRoles) =>
            LET r == complaint_update_status(u, pk, "POST", status)
                current == complaints[pk].status
            IN  (r.outcome = Ok /\ r.complaints[pk].status = status)
                <=> \/ status \in valid_transitions(current)
                    \/ is_admin(u) /\ status # current

(***************************************************************************)
(* C2: a change-status request rejected as an invalid transition leaves    *)
(* the persisted complaints as they are and appends no audit entry.        *)
(***************************************************************************)
C2_RejectedTransitionWritesNothing ==
    \A u \in Users, pk \in Pks, status \in StatusInputs :
        LET r == complaint_update_status(u, pk, "POST", status)
        IN  r.outcome = InvalidTransition =>
                /\ r.complaints = complaints
                /\ r.audit = audit
                /\ r.applied = applied

\* a complaint that took two writes and is not Open any more, on which a
\* non-Administrator's request outside the table is rejected
C2_Witness ==
    \E pk \in DOMAIN complaints :
        /\ applied[pk] >= 2
        /\ complaints[pk].status = STATUS_IN_PROGRESS
        /\ ~is_admin("support1")
        /\ STATUS_CLOSED \notin valid_transitions(complaints[pk].status)
        /\ complaint_update_status("support1", pk, "POST", STATUS_CLOSED).outcome
               = InvalidTransition

(***************************************************************************)
(* C3: every operation that succeeded added exactly one audit entry for    *)
(* its complaint and every other one added none, so a complaint has as     *)
(* many audit entries as successful mutating operations were applied.      *)
(***************************************************************************)
\* what a step did to complaint pk: one more success, one more audit row
OneMoreEntry(pk) ==
    /\ audit' = Append(audit, audit'[Len(audit')])
    /\ audit'[Len(audit')].complaint = pk
    /\ applied'[pk] = (IF pk \in DOMAIN applied THEN applied[pk] ELSE 0) + 1
    /\ \A k \in DOMAIN applied : k # pk => applied'[k] = applied[k]

\* a step that wrote anything is one successful operation on one complaint
\* and appended one audit row for it; a denied or rejected request is no
\* such step, so it wrote nothing
C3_StepWritesOneEntry ==
    \E pk \in DOMAIN complaints' : OneMoreEntry(pk)

C3_OneAuditEntryPerSuccess ==
    /\ [](/\ DOMAIN applied = DOMAIN complaints
          /\ \A pk \in DOMAIN complaints : Cardinality(AuditOf(pk)) = applied[pk])
    /\ [][C3_StepWritesOneEntry]_vars

\* two complaints written to in turn, one of them twice, while a request
\* on it is denied and another is rejected
C3_Witness ==
    /\ Len(complaints) = 2
    /\ \E pk \in DOMAIN complaints :
          /\ applied[pk] = 2
          /\ Cardinality(AuditOf(pk)) = 2
          /\ audit[Len(audit)].complaint # pk
          /\ complaint_assign("support1", pk, "POST", "support1").outcome = Forbidden
          /\ complaint_update_status("helpdesk1", pk, "POST", STATUS_CLOSED).outcome
                 = InvalidTransition

(***************************************************************************)
(* C4: for an actor of any role and a complaint of another tenant, view,   *)
(* change-status, assign, add-resolution-notes and close are denied, write *)
(* nothing, and answer as they answer for a pk that addresses no complaint.*)
(***************************************************************************)
\* r answers a request on another tenant's complaint, r0 the same request
\* on a pk that does not exist
DeniedAsAbsent(r, r0) ==
    /\ r.outcome \in Denied
    /\ r.outcome = r0.outcome
    /\ Unchanged(r)

C4_CrossTenantDeniedAsNotFound ==
    \A u \in Users, pk \in DOMAIN complaints :
        CrossTenant(u, pk) =>
            /\ DeniedAsAbsent(complaint_detail(u, pk), complaint_detail(u, Absent))
            /\ \A method \in Methods :
                  /\ \A status \in StatusInputs :
                        DeniedAsAbsent(complaint_update_status(u, pk, method, status),
                                       complaint_update_status(u, Absent, method, status))
                  /\ \A assigned_to \in AssigneeInputs :
                        DeniedAsAbsent(complaint_assign(u, pk, method, assigned_to),
                                       complaint_assign(u, Absent, method, assigned_to))
                  /\ \A notes \in NotesInputs :
                        DeniedAsAbsent(complaint_add_resolution(u, pk, method, notes),
                                       complaint_add_resolution(u, Absent, method, notes))
                  /\ DeniedAsAbsent(complaint_close(u, pk, method),
                                    complaint_close(u, Absent, method))

\* a Resolved complaint of acme that its own Administrator can move and its
\* submitter can close, while the other tenant's Administrator and Consumer
\* are answered NotFound
C4_Witness ==
    \E pk \in DOMAIN complaints :
        /\ complaints[pk].tenant = "acme"
        /\ complaints[pk].status = STATUS_RESOLVED
        /\ complaints[pk].submitted_by = "consumer1"
        /\ complaint_update_status("admin", pk, "POST", STATUS_IN_PROGRESS).outcome = Ok
        /\ complaint_close("consumer1", pk, "POST").outcome = Ok
        /\ complaint_update_status("ts_admin", pk, "POST", STATUS_IN_PROGRESS).outcome
               = NotFound
        /\ complaint_close("ts_consumer", pk, "POST").outcome = NotFound
        /\ complaint_detail("ts_consumer", pk).outcome = NotFound

(***************************************************************************)
(* C5: a complaint's status becomes Closed only through the close action   *)
(* of its submitting consumer, never through the change-status action.     *)
(***************************************************************************)
\* the step that closes a complaint appends the 'closed' row of complaint_close,
\* written for the complaint's submitter
C5_ClosedOnlyByClose ==
    [][\A pk \in DOMAIN complaints :
          (complaints[pk].status # STATUS_CLOSED /\ complaints'[pk].status = STATUS_CLOSED)
          => /\ audit'[Len(audit')].action = ACTION_CLOSED
             /\ audit'[Len(audit')].complaint = pk
             /\ audit'[Len(audit')].user = complaints[pk].submitted_by]_vars

(***************************************************************************)
(* C6: close succeeds only for the Consumer who submitted the complaint    *)
(* and only on a Resolved complaint; anyone else is denied, the submitter  *)
(* of a complaint that is not Resolved gets WrongState, and in both cases  *)
(* nothing is written.                                                     *)
(***************************************************************************)
C6_CloseOnlyBySubmitterWhenResolved ==
    \A u \in Users, pk \in DOMAIN complaints, method \in Methods :
        LET r == complaint_close(u, pk, method)
            c == complaints[pk]
        IN  /\ r.outcome = Ok =>
                  /\ u = c.submitted_by
                  /\ is_consumer(u)
                  /\ c.status = STATUS_RESOLVED
                  /\ r.complaints[pk].status = STATUS_CLOSED
            /\ u # c.submitted_by => r.outcome \in Denied /\ Unchanged(r)
            /\ (u = c.submitted_by /\ c.status # STATUS_RESOLVED) =>
                  r.outcome = WrongState /\ Unchanged(r)

\* a complaint its submitter has closed: the last audit row is the 'closed'
\* one; closing again is WrongState, and another consumer of the tenant, a
\* staff member and an Administrator are denied
C6_Witness ==
    \E pk \in DOMAIN complaints :
        /\ complaints[pk].status = STATUS_CLOSED
        /\ audit[Len(audit)].action = ACTION_CLOSED
        /\ audit[Len(audit)].complaint = pk
        /\ audit[Len(audit)].user = complaints[pk].submitted_by
        /\ complaint_close(complaints[pk].submitted_by, pk, "POST").outcome = WrongState
        /\ \E u \in {"consumer1", "consumer2"} :
              /\ u # complaints[pk].submitted_by
              /\ complaint_close(u, pk, "POST").outcome = Forbidden
        /\ complaint_close("admin", pk, "POST").outcome = Forbidden

(***************************************************************************)
(* C7: once a complaint is Closed, no later operation changes its status,  *)
(* assigned_to, resolution_notes, resolved_at or closed_at.                *)
(***************************************************************************)
FrozenFields(c) ==
    <<c.status, c.assigned_to, c.resolution_notes, c.resolved_at, c.closed_at>>

C7_ClosedIsFrozen ==
    [][\A pk \in DOMAIN complaints :
          complaints[pk].status = STATUS_CLOSED
          => FrozenFields(complaints'[pk]) = FrozenFields(complaints[pk])]_vars

(***************************************************************************)
(* C8: resolved_at is unset until a save first writes status Resolved, is  *)
(* the time of that save, and is kept by every later save; closed_at       *)
(* likewise for status Closed.                                             *)
(***************************************************************************)
\* a timestamp across one step: kept once set; otherwise set to the time of
\* the save exactly if the save wrote the status it belongs to
StampedOnce(before, after, entered, t) ==
    IF before # NullTime THEN after = before
    ELSE IF entered THEN after = t /\ t # NullTime
    ELSE after = NullTime

C8_Step ==
    \A pk \in DOMAIN complaints' :
        LET new == complaints'[pk]
            was_resolved_at == IF pk \in DOMAIN complaints
                               THEN complaints[pk].resolved_at ELSE NullTime
            was_closed_at == IF pk \in DOMAIN complaints
                             THEN complaints[pk].closed_at ELSE NullTime
        IN  /\ StampedOnce(was_resolved_at, new.resolved_at,
                           new.status = STATUS_RESOLVED, new.updated_at)
            /\ StampedOnce(was_closed_at, new.closed_at,
                           new.status = STATUS_CLOSED, new.updated_at)

C8_TimestampsSetOnce == [][C8_Step]_vars

\* a complaint that became Resolved, went back to InProgress and became
\* Resolved again: resolved_at is still the time of the first of these saves
C8_Witness ==
    \E pk \in DOMAIN complaints :
        /\ complaints[pk].status = STATUS_RESOLVED
        /\ \E i, j, k \in AuditOf(pk) :
              /\ i < j /\ j < k
              /\ audit[i].new_value = STATUS_RESOLVED
              /\ audit[j].new_value = STATUS_IN_PROGRESS
              /\ audit[k].new_value = STATUS_RESOLVED
              /\ complaints[pk].resolved_at = audit[i].created_at - 1
              /\ complaints[pk].updated_at = audit[k].created_at - 1

(***************************************************************************)
(* C9: a successful assign sets assigned_to; on an Open complaint it also  *)
(* moves the status to InProgress, on any other it leaves the status.      *)
(***************************************************************************)
C9_AssignAdvancesOpenOnly ==
    \A u \in Users, pk \in DOMAIN complaints, assigned_to \in AssigneeInputs :
        LET r == complaint_assign(u, pk, "POST", assigned_to)
            c == complaints[pk]
        IN  r.outcome = Ok =>
              /\ r.complaints[pk].assigned_to = assigned_to
              /\ r.complaints[pk].status =
                     IF c.status = STATUS_OPEN THEN STATUS_IN_PROGRESS ELSE c.status
              /\ \A k \in DOMAIN complaints : k # pk => r.complaints[k] = complaints[k]

\* a complaint assigned right after its creation, while Open, then set to
\* Resolved, then assigned again: the first assign left it InProgress, the
\* second one replaced the assignee and left it Resolved
C9_Witness ==
    \E pk \in DOMAIN complaints :
        /\ complaints[pk].status = STATUS_RESOLVED
        /\ \E i, m, j \in AuditOf(pk) :
              /\ i < m /\ m < j /\ j = Len(audit)
              /\ \A h \in AuditOf(pk) : h < i => audit[h].action = ACTION_CREATED
              /\ audit[i].action = ACTION_ASSIGNED
              /\ audit[m].action = ACTION_STATUS_CHANGE
              /\ audit[m].new_value = STATUS_RESOLVED
              /\ audit[j].action = ACTION_ASSIGNED
              /\ audit[j].new_value # audit[j].old_value
              /\ complaints[pk].assigned_to = audit[j].new_value

(***************************************************************************)
(* C10: when assign auto-advances an Open complaint to InProgress, the     *)
(* audit trail records the assignment and the Open->InProgress change, as  *)
(* two consecutive entries or one combined entry, assignment first.        *)
(***************************************************************************)
RecordsAssignment(e) == e.action = ACTION_ASSIGNED

\* a 'status_change' row open -> in_progress, or a row of another kind that
\* carries the change in its values or names the new status in its details
RecordsStatusChange(e) ==
    \/ e.old_value = STATUS_OPEN /\ e.new_value = STATUS_IN_PROGRESS
    \/ \E k \in DOMAIN e.details : e.details[k] = STATUS_IN_PROGRESS

C10_Step ==
    \A pk \in DOMAIN complaints :
        ( /\ complaints[pk].status = STATUS_OPEN
          /\ complaints'[pk].status = STATUS_IN_PROGRESS
          /\ complaints'[pk].assigned_to # complaints[pk].assigned_to )
        => LET new == SubSeq(audit', Len(audit) + 1, Len(audit'))
           IN  \E i, j \in DOMAIN new :
                  /\ i <= j
                  /\ new[i].complaint = pk /\ RecordsAssignment(new[i])
                  /\ new[j].complaint = pk /\ RecordsStatusChange(new[j])

C10_AutoAdvanceAudited == [][C10_Step]_vars

(***************************************************************************)
(* C11: on a complaint of the actor's own tenant, change-status passes the *)
(* authorization guard exactly for Helpdesk, Support, Manager and          *)
(* Administrator, and assign exactly for Helpdesk, Manager and             *)
(* Administrator; an actor of any other role is denied, and the denied     *)
(* request leaves the complaint and the audit trail as they were.          *)
(***************************************************************************)
C11_RoleGates ==
    \A u \in Users, pk \in DOMAIN complaints, method \in Methods :
        InTenant(u, pk) =>
            /\ \A status \in StatusInputs :
                   LET r == complaint_update_status(u, pk, method, status)
                   IN  /\ r.outcome \notin Denied <=> profile(u).role \in StaffRoles
                       /\ r.outcome \in Denied => Unchanged(r)
            /\ \A assigned_to \in AssigneeInputs :
                   LET r == complaint_assign(u, pk, method, assigned_to)
                   IN  /\ r.outcome \notin Denied <=>
                              profile(u).role \in {ROLE_HELPDESK, ROLE_MANAGER, ROLE_ADMIN}
                       /\ r.outcome \in Denied => Unchanged(r)

\* a complaint that Helpdesk assigned and an Administrator moved on, on which
\* Support is let through to change-status but not to assign, and a Consumer
\* to neither
C11_Witness ==
    \E pk \in DOMAIN complaints :
        /\ \E i \in AuditOf(pk) :
               audit[i].action = ACTION_ASSIGNED /\ audit[i].user = "helpdesk1"
        /\ \E i \in AuditOf(pk) :
               audit[i].action = ACTION_STATUS_CHANGE /\ audit[i].user = "admin"
        /\ complaint_update_status("support1", pk, "POST", STATUS_OPEN).outcome
               \notin Denied
        /\ complaint_assign("support1", pk, "POST", "manager1").outcome = Forbidden
        /\ complaint_assign("manager1", pk, "POST", "manager1").outcome = Ok
        /\ complaint_update_status("consumer1", pk, "POST", STATUS_OPEN).outcome
               = Forbidden
        /\ complaint_assign("consumer1", pk, "POST", "manager1").outcome = Forbidden

(***************************************************************************)
(* C12: on a complaint of the actor's own tenant, add-resolution-notes     *)
(* passes the authorization guard only for Support and Manager; a          *)
(* Consumer, Helpdesk or Administrator is denied, and resolution_notes and *)
(* the audit trail stay as they were.                                      *)
(***************************************************************************)
C12_NotesOnlySupportOrManager ==
    \A u \in Users, pk \in DOMAIN complaints, notes \in NotesInputs :
        InTenant(u, pk) =>
            LET r == complaint_add_resolution(u, pk, "POST", notes)
            IN  /\ r.outcome \notin Denied <=>
                       profile(u).role \in {ROLE_SUPPORT, ROLE_MANAGER}
                /\ r.outcome \in Denied => Unchanged(r)

(***************************************************************************)
(* C13: a Consumer who asks to view a complaint of their own tenant that   *)
(* another user submitted gets the outcome they would get for a complaint  *)
(* that does not exist.                                                    *)
(***************************************************************************)
C13_ForeignComplaintAsAbsent ==
    \A u \in Users, pk \in DOMAIN complaints :
        (InTenant(u, pk) /\ is_consumer(u) /\ complaints[pk].submitted_by # u) =>
            /\ complaint_detail(u, pk).outcome \in Denied
            /\ complaint_detail(u, pk).outcome = complaint_detail(u, Absent).outcome

(***************************************************************************)
(* C14: for every actor, the complaints the list returns and the           *)
(* complaints the detail page shows are: all complaints of the actor's     *)
(* tenant for Helpdesk, Support, Manager and Administrator; the complaints *)
(* of the actor's tenant whose submitted_by is the actor for a Consumer;   *)
(* never a complaint of another tenant.                                    *)
(***************************************************************************)
\* the complaints the policy lets actor u see
Visible(u) ==
    {pk \in DOMAIN complaints :
        /\ has_profile(u)
        /\ complaints[pk].tenant = profile(u).tenant
        /\ profile(u).role \in StaffRoles \/ complaints[pk].submitted_by = u}

\* the complaints on the pages of the list with the given status filter
Listed(u, status_filter) ==
    UNION {{complaint_list(u, status_filter, p).page_obj[i] :
               i \in DOMAIN complaint_list(u, status_filter, p).page_obj} :
           p \in PageInputs}

C14_VisibleComplaints ==
    \A u \in Users :
        /\ Listed(u, NoText) = Visible(u)
        /\ \A status_filter \in StatusFilterInputs :
               Listed(u, status_filter) =
                   {pk \in Visible(u) :
                       status_filter # NoText => complaints[pk].status = status_filter}
        /\ \A pk \in DOMAIN complaints :
               complaint_detail(u, pk).outcome = Rendered <=> pk \in Visible(u)

\* two complaints of one tenant submitted by two Consumers: staff of the
\* tenant list both, newest first, each Consumer lists their own, and an
\* Administrator of the other tenant lists none
C14_Witness ==
    /\ Len(complaints) = 2
    /\ complaints[1].submitted_by = "consumer1"
    /\ complaints[2].submitted_by = "consumer2"
    /\ Listed("helpdesk1", NoText) = {1, 2}
    /\ complaint_list("helpdesk1", NoText, 1).page_obj = <<2, 1>>
    /\ Listed("consumer1", NoText) = {1}
    /\ Listed("consumer2", NoText) = {2}
    /\ Listed("ts_admin", NoText) = {}
    /\ complaint_detail("consumer1", 2).outcome = Forbidden

(***************************************************************************)
(* C15: once a complaint is created, no later change-status, assign,       *)
(* add-resolution-notes or close changes its tenant or its                 *)
(* reference_number: every step leaves both as they were on every          *)
(* persisted complaint.                                                    *)
(***************************************************************************)
C15_Step ==
    \A pk \in DOMAIN complaints :
        /\ pk \in DOMAIN complaints'
        /\ complaints'[pk].tenant = complaints[pk].tenant
        /\ complaints'[pk].reference_number = complaints[pk].reference_number

C15_TenantAndReferenceFixed == [][C15_Step]_vars

\* a complaint that has been through three later saves: an assignment, a
\* change of status and the closure
C15_Witness ==
    \E pk \in DOMAIN complaints :
        /\ Cardinality(AuditOf(pk)) = 4
        /\ {audit[i].action : i \in AuditOf(pk)} =
               {ACTION_CREATED, ACTION_ASSIGNED, ACTION_STATUS_CHANGE, ACTION_CLOSED}
        /\ complaints[pk].updated_at > complaints[pk].created_at

(***************************************************************************)
(* C16: no two persisted complaints have the same reference_number,        *)
(* whatever creations were made and whatever suffixes were drawn.          *)
(***************************************************************************)
C16_UniqueReference ==
    \A i, j \in DOMAIN complaints :
        i # j => complaints[i].reference_number # complaints[j].reference_number

\* two complaints of one tenant, and a further creation in that tenant that
\* draws the suffix of the first one is refused
C16_Witness ==
    /\ Len(complaints) = 2
    /\ complaints[1].tenant = "acme" /\ complaints[2].tenant = "acme"
    /\ complaints[1].reference_number = <<"A", "C", "M", "-", "A">>
    /\ 1 \in UuidInputs
    /\ complaint_create("consumer1", "POST", "t", NoUser, 1).outcome = ServerError

(***************************************************************************)
(* C17: when the reference_number generated for a new complaint is the one *)
(* of a persisted complaint, creation draws again before it persists, so   *)
(* that a create request with valid input still succeeds.                  *)
(***************************************************************************)
C17_CollisionRetried ==
    \A u \in ProfiledUsers, submitted_by \in SubmittedByInputs, uuid \in UuidInputs :
        ComplaintForm(u, "t", submitted_by).is_valid =>
            LET r == complaint_create(u, "POST", "t", submitted_by, uuid)
            IN  /\ r.outcome = Ok
                /\ Len(r.complaints) = Len(complaints) + 1

(***************************************************************************)
(* C20: for an authenticated actor that has no profile, every operation    *)
(* (list, view, create, change-status, assign, add-resolution-notes,       *)
(* close) ends in a denial, raises no error, and creates or changes no     *)
(* complaint and no audit entry.                                           *)
(***************************************************************************)
\* the denial of a request of an actor without profile
DeniedUnconfigured(r) ==
    /\ r.outcome \in {Unconfigured, Forbidden}
    /\ Unchanged(r)

C20_NoProfileDenied ==
    \A u \in Users, pk \in Pks, method \in Methods :
        ~has_profile(u) =>
            /\ \A status_filter \in StatusFilterInputs, page_number \in PageInputs :
                   LET r == complaint_list(u, status_filter, page_number)
                   IN  r.outcome = Unconfigured /\ r.page_obj = <<>>
            /\ DeniedUnconfigured(complaint_detail(u, pk))
            /\ \A title \in TitleInputs, submitted_by \in SubmittedByInputs,
                  uuid \in UuidInputs :
                   DeniedUnconfigured(complaint_create(u, method, title, submitted_by, uuid))
            /\ \A status \in StatusInputs :
                   DeniedUnconfigured(complaint_update_status(u, pk, method, status))
            /\ \A assigned_to \in AssigneeInputs :
                   DeniedUnconfigured(complaint_assign(u, pk, method, assigned_to))
            /\ \A notes \in NotesInputs :
                   DeniedUnconfigured(complaint_add_resolution(u, pk, method, notes))
            /\ DeniedUnconfigured(complaint_close(u, pk, method))

\* a Resolved complaint, which its submitter may close and staff may work
\* on, and the user without profile is turned away by every view
C20_Witness ==
    \E pk \in DOMAIN complaints :
        /\ complaints[pk].status = STATUS_RESOLVED
        /\ complaints[pk].submitted_by = "consumer1"
        /\ complaint_close("consumer1", pk, "POST").outcome = Ok
        /\ complaint_close("noprofile", pk, "POST").outcome = Unconfigured
        /\ complaint_detail("noprofile", pk).outcome = Unconfigured
        /\ complaint_list("noprofile", NoText, 1).outcome = Unconfigured
        /\ complaint_create("noprofile", "POST", "t", NoUser, 1).outcome = Unconfigured
        /\ complaint_update_status("noprofile", pk, "POST", STATUS_OPEN).outcome = Forbidden
        /\ complaint_assign("noprofile", pk, "POST", "support1").outcome = Forbidden
        /\ complaint_add_resolution("noprofile", pk, "POST", "n").outcome = Forbidden

(***************************************************************************)
(* C18: when the audit write of a mutating operation fails with a storage  *)
(* failure, the complaint mutation of that operation is not persisted: a   *)
(* step commits a change of the Complaint table exactly when it commits an *)
(* audit entry, and in every reachable state the last save of every        *)
(* complaint is followed by its audit entry.                               *)
(***************************************************************************)
C18_Step == (complaints' # complaints) <=> (audit' # audit)

\* the audit entry of the last save of complaint pk is there
LastSaveAudited(pk) ==
    \E i \in AuditOf(pk) : audit[i].created_at = complaints[pk].updated_at + 1

C18_MutationAndAuditTogether ==
    /\ [](\A pk \in DOMAIN complaints : LastSaveAudited(pk))
    /\ [][C18_Step]_vars

(***************************************************************************)
(* C19: when change-status and assign requests on one complaint overlap,   *)
(* the transition check and the status write of each request are atomic:   *)
(* every change-status or assign that changes the persisted status of a    *)
(* complaint writes an allowed destination of the status that was          *)
(* persisted just before the write, or is the change-status of an          *)
(* Administrator.                                                          *)
(***************************************************************************)
C19_Step ==
    \A pk \in DOMAIN complaints :
        LET e == audit'[Len(audit')]
        IN  (/\ complaints'[pk].status # complaints[pk].status
             /\ Len(audit') = Len(audit) + 1
             /\ e.complaint = pk
             /\ e.action \in {ACTION_STATUS_CHANGE, ACTION_ASSIGNED}) =>
                \/ complaints'[pk].status \in valid_transitions(complaints[pk].status)
                \/ e.action = ACTION_STATUS_CHANGE /\ is_admin(e.user)

C19_CheckAndWriteAtomic == [][C19_Step]_vars

(***************************************************************************)
(* C21: the whole lifecycle can be walked without an Administrator: on a   *)
(* complaint that Consumer A created, every step of the walk succeeds in   *)
(* the state the step before it leaves.  Helpdesk assigns Support to the   *)
(* Open complaint, which becomes InProgress; Support adds resolution notes *)
(* and changes the status of the InProgress complaint to Resolved, which   *)
(* sets resolved_at; A closes the Resolved complaint, which sets           *)
(* closed_at.                                                              *)
(***************************************************************************)
\* the complaint pk as response r persisted it
After(r, pk) == r.complaints[pk]

C21_LifecycleWithoutAdmin ==
    \A pk \in DOMAIN complaints :
        \A A, H, S \in ProfiledUsers :
            (/\ InTenant(A, pk) /\ InTenant(H, pk) /\ InTenant(S, pk)
             /\ is_consumer(A) /\ is_helpdesk(H) /\ is_support(S)
             /\ complaints[pk].submitted_by = A
             /\ complaints[pk].logged_by = NoUser
             /\ \A i \in AuditOf(pk) : ~is_admin(audit[i].user)) =>
                /\ complaints[pk].status = STATUS_OPEN =>
                       LET r == complaint_assign(H, pk, "POST", S)
                       IN  /\ r.outcome = Ok
                           /\ After(r, pk).status = STATUS_IN_PROGRESS
                           /\ After(r, pk).assigned_to = S
                /\ (complaints[pk].status = STATUS_IN_PROGRESS
                        /\ complaints[pk].assigned_to = S) =>
                       /\ complaint_add_resolution(S, pk, "POST", "n").outcome = Ok
                       /\ LET r == complaint_update_status(S, pk, "POST", STATUS_RESOLVED)
                          IN  /\ r.outcome = Ok
                              /\ After(r, pk).status = STATUS_RESOLVED
                              /\ After(r, pk).resolved_at # NullTime
                /\ complaints[pk].status = STATUS_RESOLVED =>
                       LET r == complaint_close(A, pk, "POST")
                       IN  /\ r.outcome = Ok
                           /\ After(r, pk).status = STATUS_CLOSED
                           /\ After(r, pk).closed_at # NullTime

(***************************************************************************)
(* C22: a successful add-resolution-notes changes only resolution_notes    *)
(* and the update time of the complaint: its status, assigned_to,          *)
(* submitted_by, resolved_at and closed_at (and every other field) are     *)
(* after the operation what they were before it, in whatever status the    *)
(* complaint is.                                                           *)
(***************************************************************************)
\* the step appended one audit entry, of the given action
Wrote(action) ==
    /\ Len(audit') = Len(audit) + 1
    /\ audit'[Len(audit')].action = action

C22_Step ==
    Wrote(ACTION_RESOLUTION_ADDED) =>
        LET pk == audit'[Len(audit')].complaint
        IN  /\ pk \in DOMAIN complaints
            /\ complaints' =
                   [complaints EXCEPT
                       ![pk].resolution_notes = complaints'[pk].resolution_notes,
                       ![pk].updated_at = complaints'[pk].updated_at]
            /\ complaints'[pk].resolution_notes # NoText

C22_NotesChangeOnlyNotes == [][C22_Step]_vars

\* notes were just added to a complaint that was Resolved before
C22_Witness ==
    /\ audit # <<>>
    /\ audit[Len(audit)].action = ACTION_RESOLUTION_ADDED
    /\ LET c == complaints[audit[Len(audit)].complaint]
       IN  /\ c.status = STATUS_RESOLVED
           /\ c.resolved_at # NullTime
           /\ c.updated_at > c.resolved_at
           /\ c.resolution_notes = "n"

(***************************************************************************)
(* C23: every complaint the create operation persisted has a submitting    *)
(* Consumer: submitted_by is the creator when a Consumer created it, and a *)
(* Consumer of the creator's tenant, with logged_by the creator, when a    *)
(* staff member created it; submitted_by is never empty.                   *)
(***************************************************************************)
\* the user who created complaint pk, from its 'created' audit entry
Creator(pk) ==
    audit[CHOOSE i \in AuditOf(pk) : audit[i].action = ACTION_CREATED].user

C23_SubmitterRequired ==
    \A pk \in DOMAIN complaints :
        LET c == complaints[pk]
        IN  /\ c.submitted_by # NoUser
            /\ is_consumer(c.submitted_by)
            /\ profile(c.submitted_by).tenant = c.tenant
            /\ is_consumer(Creator(pk)) => c.submitted_by = Creator(pk)
            /\ ~is_consumer(Creator(pk)) => c.logged_by = Creator(pk)

(***************************************************************************)
(* C24: the audit trail is append-only: the entries of an earlier state    *)
(* are, in creation order, a prefix of the entries of every later state,   *)
(* for the table and for the trail of each complaint; no operation updates *)
(* or deletes an entry.                                                    *)
(***************************************************************************)
\* the audit entries of complaint pk in a table, in creation order
TrailOf(table, pk) == SelectSeq(table, LAMBDA e : e.complaint = pk)

IsPrefix(s, t) == Len(s) <= Len(t) /\ SubSeq(t, 1, Len(s)) = s

C24_Step ==
    /\ IsPrefix(audit, audit')
    /\ \A pk \in DOMAIN complaints : IsPrefix(TrailOf(audit, pk), TrailOf(audit', pk))
    /\ \A i \in DOMAIN audit' :
           (i > Len(audit) /\ i > 1) => audit'[i].created_at > audit'[i - 1].created_at

C24_AuditAppendOnly == [][C24_Step]_vars

\* the trails of two complaints, written in turns
C24_Witness ==
    /\ Len(audit) = 3
    /\ audit[1].complaint = 1
    /\ audit[2].complaint = 2
    /\ audit[3].complaint = 1
    /\ audit[3].action # ACTION_CREATED

(***************************************************************************)
(* C25: the audit entry a successful change-status appends has action      *)
(* 'status_change', old_value the status that was persisted before the     *)
(* operation and new_value the status persisted after it; old_value and    *)
(* new_value differ whenever the status changed.                           *)
(***************************************************************************)
C25_Step ==
    Wrote(ACTION_STATUS_CHANGE) =>
        LET e == audit'[Len(audit')]
            pk == e.complaint
        IN  /\ pk \in DOMAIN complaints
            /\ e.old_value = complaints[pk].status
            /\ e.new_value = complaints'[pk].status
            /\ complaints'[pk].status # complaints[pk].status
                   => e.old_value # e.new_value

C25_StatusChangeValues == [][C25_Step]_vars

(***************************************************************************)
(* C26: in every reachable state, a complaint whose status is Resolved has *)
(* resolved_at set and a complaint whose status is Closed has closed_at    *)
(* set, whichever operation wrote the status.                              *)
(***************************************************************************)
C26_StampedWhenResolvedOrClosed ==
    \A pk \in DOMAIN complaints :
        /\ complaints[pk].status = STATUS_RESOLVED => complaints[pk].resolved_at # NullTime
        /\ complaints[pk].status = STATUS_CLOSED => complaints[pk].closed_at # NullTime

\* a complaint that an Administrator's change-status has just closed
\* without it ever being Resolved
C26_Witness ==
    /\ audit # <<>>
    /\ audit[Len(audit)].action = ACTION_STATUS_CHANGE
    /\ LET c == complaints[audit[Len(audit)].complaint]
       IN  /\ c.status = STATUS_CLOSED
           /\ c.closed_at = c.updated_at
           /\ c.resolved_at = NullTime

(***************************************************************************)
(* C27: after any assign operations, assigned_to of a complaint is empty   *)
(* or a Support or Manager user of the complaint's tenant; an assign       *)
(* request that names a user of another tenant or of another role is       *)
(* rejected, with no change to the complaint and no audit entry.           *)
(***************************************************************************)
\* user x may be assigned the complaints of tenant t
Assignable(x, t) ==
    /\ has_profile(x)
    /\ profile(x).tenant = t
    /\ profile(x).role \in {ROLE_SUPPORT, ROLE_MANAGER}

C27_AssigneeOfTenantAndRole ==
    \A pk \in DOMAIN complaints :
        /\ complaints[pk].assigned_to # NoUser =>
               Assignable(complaints[pk].assigned_to, complaints[pk].tenant)
        /\ \A u \in Users, assigned_to \in AssigneeInputs :
               LET r == complaint_assign(u, pk, "POST", assigned_to)
               IN  ~Assignable(assigned_to, complaints[pk].tenant) =>
                       r.outcome # Ok /\ Unchanged(r)

\* a complaint assigned twice, now to the Manager, for which a request
\* naming a Helpdesk agent or a user of the other tenant is rejected
C27_Witness ==
    \E pk \in DOMAIN complaints :
        /\ complaints[pk].assigned_to = "manager1"
        /\ \E i \in AuditOf(pk) :
               audit[i].action = ACTION_ASSIGNED /\ audit[i].new_value = "support1"
        /\ complaint_assign("helpdesk1", pk, "POST", "helpdesk1").outcome = Redirected
        /\ complaint_assign("helpdesk1", pk, "POST", "ts_admin").outcome = Redirected
        /\ complaint_assign("helpdesk1", pk, "POST", "support1").outcome = Ok

(***************************************************************************)
(* C28: a request to a mutating endpoint (create, change-status, assign,   *)
(* add-resolution-notes, close) that is not a POST changes no complaint    *)
(* and appends no audit entry, for every actor and every complaint.        *)
(***************************************************************************)
C28_OnlyPostMutates ==
    \A u \in Users, pk \in Pks, method \in Methods \ {"POST"} :
        /\ \A title \in TitleInputs, submitted_by \in SubmittedByInputs,
              uuid \in UuidInputs :
               Unchanged(complaint_create(u, method, title, submitted_by, uuid))
        /\ \A status \in StatusInputs :
               Unchanged(complaint_update_status(u, pk, method, status))
        /\ \A assigned_to \in AssigneeInputs :
               Unchanged(complaint_assign(u, pk, method, assigned_to))
        /\ \A notes \in NotesInputs :
               Unchanged(complaint_add_resolution(u, pk, method, notes))
        /\ Unchanged(complaint_close(u, pk, method))

\* a Resolved complaint that its submitter's POST would close and an
\* Administrator's POSTs would change, while their GETs are only answered
C28_Witness ==
    \E pk \in DOMAIN complaints :
        /\ complaints[pk].status = STATUS_RESOLVED
        /\ complaints[pk].submitted_by = "consumer1"
        /\ complaint_close("consumer1", pk, "POST").outcome = Ok
        /\ complaint_close("consumer1", pk, "GET").outcome = Rendered
        /\ complaint_update_status("admin", pk, "POST", STATUS_OPEN).outcome = Ok
        /\ complaint_update_status("admin", pk, "GET", STATUS_OPEN).outcome = Redirected
        /\ complaint_assign("admin", pk, "POST", "support1").outcome = Ok
        /\ complaint_assign("admin", pk, "GET", "support1").outcome = Redirected
        /\ complaint_add_resolution("admin", pk, "GET", "n").outcome = Redirected
        /\ complaint_create("consumer1", "GET", "t", NoUser, 1).outcome = Rendered

(***************************************************************************)
(* C29: when operations that write different fields of one complaint       *)
(* overlap, each reading the complaint and then saving the whole record,   *)
(* the persisted complaint reflects both: an assign leaves the persisted   *)
(* resolution_notes, resolved_at and closed_at as they are, and an         *)
(* add-resolution-notes leaves the persisted assigned_to, status,          *)
(* resolved_at and closed_at as they are; no committed write is            *)
(* overwritten by a stale copy.                                            *)
(***************************************************************************)
C29_Step ==
    \A pk \in DOMAIN complaints :
        LET before == complaints[pk]
            after == complaints'[pk]
            e == audit'[Len(audit')]
        IN  (Len(audit') = Len(audit) + 1 /\ e.complaint = pk) =>
                /\ e.action = ACTION_ASSIGNED =>
                       /\ after.resolution_notes = before.resolution_notes
                       /\ after.resolved_at = before.resolved_at
                       /\ after.closed_at = before.closed_at
                       /\ after.status = before.status
                              \/ (before.status = STATUS_OPEN
                                     /\ after.status = STATUS_IN_PROGRESS)
                /\ e.action = ACTION_RESOLUTION_ADDED =>
                       /\ after.assigned_to = before.assigned_to
                       /\ after.status = before.status
                       /\ after.resolved_at = before.resolved_at
                       /\ after.closed_at = before.closed_at

C29_NoLostUpdate == [][C29_Step]_vars

(***************************************************************************)
(* C30: the tenant of every audit entry is the tenant of the complaint the *)
(* entry references, and the acting user of the entry belongs to that      *)
(* tenant, whichever of create, change-status, assign,                     *)
(* add-resolution-notes and close wrote the entry.                         *)
(***************************************************************************)
C30_AuditTenant ==
    \A i \in DOMAIN audit :
        /\ audit[i].complaint \in DOMAIN complaints
        /\ audit[i].tenant = complaints[audit[i].complaint].tenant
        /\ has_profile(audit[i].user)
        /\ profile(audit[i].user).tenant = audit[i].tenant

\* complaints of two tenants, and an entry that a change of the complaint
\* of the second tenant wrote
C30_Witness ==
    /\ Len(complaints) = 2
    /\ complaints[1].tenant = "acme"
    /\ complaints[2].tenant = "techstart"
    /\ \E i \in AuditOf(2) :
           /\ audit[i].action # ACTION_CREATED
           /\ audit[i].user = "ts_admin"
           /\ audit[i].tenant = "techstart"
====
